---- MODULE Spec2Model ----
(***************************************************************************)
(* IMF importer (imf_importer): identifier compliance (_compliance.py),    *)
(* the row aggregation of parse_concepts / parse_properties (_parsing.py)  *)
(* and IMFImporter.from_file / to_data_model (_imf2data_model.py).         *)
(*                                                                         *)
(* Python values are records [k, v]: k is the Python type, v the content.  *)
(* A str is a sequence of tokens, each token a fixed piece of text:        *)
(*   "S" = "http://ex.org"   (scheme "http", then "//" and the authority)  *)
(*   "H" = "ex.org"          (what is left of "S" after its last "/")      *)
(*   "/" and "#"             (the separators)                              *)
(*   "F" = "Foo"             (a local name)                                *)
(*   "U" = "123e4567-e89b-42d3-a456-426614174000" (a canonical v4 UUID)    *)
(*   "V" = "U" with every "-" replaced by "_"                              *)
(*   "I" = "IMF_"            (the prefix of _add_prefix)                   *)
(*   "." and ", "            (the separators of the composite key and of   *)
(*                            the joined value types)                      *)
(* and other tokens ("alpha", "Pump", "imf:Block", ...) are opaque text.   *)
(***************************************************************************)
EXTENDS Integers, Sequences, FiniteSets

VARIABLES
    graph,       \* the rows the two queries yield: [concepts, properties]
    read_failed, \* whether graph.parse(filepath) raised in from_file
    issue_list,  \* self.issue_list: the sequence of issues
    concepts,    \* the concept map being built (dict: id -> record)
    properties,  \* the property map being built (dict: id_ -> record)
    pc,          \* where the importer / the parser is
    outcome,     \* what the last to_data_model call did
    calls,       \* how many to_data_model calls were made
    uri,         \* the string handed to the identifier normalization
    idents       \* the results of normalizing it once, twice

vars == <<graph, read_failed, issue_list, concepts, properties, pc, outcome,
          calls, uri, idents>>

\* ------------------------------------------------------------- bounds
MaxLen == 5
MaxConceptRows == 4
MaxPropertyRows == 4
MaxGraphRows == 2
MaxCalls == 2

\* ------------------------------------------------------ Python values
None == [k |-> "None", v |-> <<>>]
Str(s) == [k |-> "str", v |-> s]
BNode(s) == [k |-> "BNode", v |-> s]
List(items) == [k |-> "list", v |-> items]
Int0 == [k |-> "int", v |-> <<>>]

\* bool(x)
Truthy(x) ==
    CASE x.k = "None" -> FALSE
      [] x.k = "int" -> FALSE
      [] OTHER -> x.v # <<>>

\* isinstance(x, str): rdflib's BNode is a subclass of str
IsStr(x) == x.k \in {"str", "BNode"}
IsBNode(x) == x.k = "BNode"
IsList(x) == x.k = "list"

\* x in l, l.append(x)
In(x, l) == \E i \in DOMAIN l.v : l.v[i] = x
ListAppend(l, x) == List(Append(l.v, x))

\* ---------------------------------------------------- _compliance.py
\* tokens whose characters are all scheme characters (letters, digits, + - .)
SchemeTok == {"F", "U", "H", "."}
\* those of them that start with a letter
LetterTok == {"F", "H"}

Last(s, T) ==
    LET I == {i \in DOMAIN s : s[i] \in T} IN
    CHOOSE i \in I : \A j \in I : j <= i

\* _is_uri on the text of a str: urlparse finds a scheme (the text before the
\* first ":", which is that of the first "S") and a network location
is_uri_text(s) ==
    \E k \in DOMAIN s :
        /\ s[k] = "S"
        /\ \A j \in 1..(k - 1) : s[j] \in SchemeTok
        /\ k > 1 => s[1] \in LetterTok

\* urlparse(None) is an empty result, and a BNode's label has no ":"
is_uri(x) == x.k = "str" /\ is_uri_text(x.v)

remove_namespace_text(s) ==
    IF \E i \in DOMAIN s : s[i] = "#"
    THEN SubSeq(s, Last(s, {"#"}) + 1, Len(s))
    ELSE LET j == Last(s, {"/", "S"}) IN
         IF s[j] = "/"
         THEN SubSeq(s, j + 1, Len(s))
         ELSE <<"H">> \o SubSeq(s, j + 1, Len(s))

remove_namespace(x) ==
    IF ~is_uri(x) THEN x ELSE Str(remove_namespace_text(x.v))

\* uuid.UUID(None) raises TypeError, which _is_valid_uuid does not catch
is_valid_uuid_raises(x) == ~IsStr(x)

is_valid_uuid(x) == IsStr(x) /\ x.v = <<"U">>

replace_hyphen(x) ==
    [x EXCEPT !.v = [i \in DOMAIN x.v |-> IF x.v[i] = "U" THEN "V" ELSE x.v[i]]]

add_prefix(x) == Str(<<"I">> \o x.v)

make_identifier_compliant(x) ==
    IF is_valid_uuid(x) THEN add_prefix(replace_hyphen(x)) ELSE x

make_concept_compliant_raises(res) ==
    is_valid_uuid_raises(remove_namespace(res.concept))

make_concept_compliant(res) ==
    [res EXCEPT !.concept = make_identifier_compliant(remove_namespace(res.concept))]

make_property_compliant_raises(res) ==
    \/ is_valid_uuid_raises(remove_namespace(res.concept))
    \/ is_valid_uuid_raises(remove_namespace(res.property_))

make_property_compliant(res) ==
    [res EXCEPT
        !.concept = make_identifier_compliant(remove_namespace(res.concept)),
        !.property_ = make_identifier_compliant(remove_namespace(res.property_)),
        !.value_type = remove_namespace(res.value_type)]

\* ------------------------------------------------------------- issues
Issue(cls, identifier, resource_type, feature, error, current_value, new_value) ==
    [cls |-> cls, identifier |-> identifier, resource_type |-> resource_type,
     feature |-> feature, error |-> error,
     current_value |-> current_value, new_value |-> new_value]

FileReadError == Issue("FileReadError", None, "", "", "graph.parse failed", None, None)

NeatValueError(msg) == Issue("NeatValueError", None, "", "", msg, None, None)

ResourceRetrievalWarning(identifier, resource_type, error) ==
    Issue("ResourceRetrievalWarning", identifier, resource_type, "", error, None, None)

ResourceRedefinedWarning(identifier, resource_type, feature, current_value, new_value) ==
    Issue("ResourceRedefinedWarning", identifier, resource_type, feature, "",
          current_value, new_value)

\* the issues that are NeatError (the others are NeatWarning)
IsError(issue) == issue.cls \in {"FileReadError", "NeatValueError"}

\* IssueList.has_errors, IssueList.errors
has_errors(issues) == \E i \in DOMAIN issues : IsError(issues[i])

\* (mutant) only the first fatal issue is carried
errors_first_only(issues) ==
    LET e == SelectSeq(issues, IsError) IN
    IF e = <<>> THEN e ELSE <<e[1]>>

errors(issues) == SelectSeq(issues, IsError)

\* ------------------------------------------------------- _parsing.py
\* The state of a parser's loop: the dict built so far, the issue list, and
\* whether an exception has ended the loop.
EmptyMap == [id \in {} |-> None]

Loop(map, issues) == [map |-> map, issues |-> issues, raised |-> FALSE]

Put(map, id, rec) ==
    [key \in DOMAIN map \cup {id} |-> IF key = id THEN rec ELSE map[key]]

\* (mutant) a later non-empty value replaces the stored one
handle_meta_last_wins(resource_type, st, resource_id, res, feature) ==
    LET cur == st.map[resource_id][feature]
        new == res[feature]
    IN  IF ~Truthy(cur) /\ Truthy(new)
        THEN [st EXCEPT !.map[resource_id][feature] = new]
        ELSE IF Truthy(cur) /\ Truthy(new)
        THEN [st EXCEPT !.map[resource_id][feature] = new,
                        !.issues = Append(@,
                 ResourceRedefinedWarning(resource_id, resource_type, feature, cur, new))]
        ELSE st

handle_meta(resource_type, st, resource_id, res, feature) ==
    LET cur == st.map[resource_id][feature]
        new == res[feature]
    IN  IF ~Truthy(cur) /\ Truthy(new)
        THEN [st EXCEPT !.map[resource_id][feature] = new]
        ELSE IF Truthy(cur) /\ Truthy(new)
        THEN [st EXCEPT !.issues = Append(@,
                 ResourceRedefinedWarning(resource_id, resource_type, feature, cur, new))]
        ELSE st

\* (mutant) a scalar is promoted to a list only when the new parent differs
merge_implements_promote_if_absent(cur, new) ==
    IF Truthy(cur) /\ IsList(cur)
    THEN IF ~In(new, cur) THEN ListAppend(cur, new) ELSE cur
    ELSE IF Truthy(cur) /\ IsStr(cur)
    THEN IF ~In(new, List(<<cur>>)) THEN ListAppend(List(<<cur>>), new) ELSE cur
    ELSE IF Truthy(new) THEN new ELSE cur

\* "Handling implements": the stored value merged with a row's
merge_implements(cur, new) ==
    IF Truthy(cur) /\ IsList(cur)
    THEN IF ~In(new, cur) THEN ListAppend(cur, new) ELSE cur
    ELSE IF Truthy(cur) /\ IsStr(cur)
    THEN IF ~In(new, List(<<cur>>)) THEN ListAppend(List(<<cur>>), new) ELSE List(<<cur>>)
    ELSE IF Truthy(new) THEN new ELSE cur

\* one iteration of parse_concepts' loop
concept_row(st, raw) ==
    IF make_concept_compliant_raises(raw) THEN [st EXCEPT !.raised = TRUE]
    ELSE
    LET compliant_res == make_concept_compliant(raw)
        concept_id == compliant_res.concept
    IN  IF Truthy(compliant_res.implements) /\ IsBNode(compliant_res.implements)
        THEN [st EXCEPT !.issues = Append(@,
                 ResourceRetrievalWarning(concept_id, "implements",
                     "Unable to determine concept that is being implemented"))]
        ELSE IF concept_id \notin DOMAIN st.map
        THEN [st EXCEPT !.map = Put(st.map, concept_id, compliant_res)]
        ELSE LET st1 == [st EXCEPT !.map[concept_id].implements =
                            merge_implements(@, compliant_res.implements)]
                 st2 == handle_meta("concept", st1, concept_id, compliant_res, "name")
             IN  handle_meta("concept", st2, concept_id, compliant_res, "description")

\* after the loop: "if not concepts"
concepts_end(st) ==
    IF DOMAIN st.map = {}
    THEN [st EXCEPT !.issues = Append(@, NeatValueError("Unable to parse concepts"))]
    ELSE st

RECURSIVE concept_loop(_, _)
concept_loop(st, rows) ==
    IF rows = <<>> \/ st.raised THEN st
    ELSE concept_loop(concept_row(st, Head(rows)), Tail(rows))

\* (mutant) the concept map of the previous call is kept and built upon
parse_concepts_stale_map(rows, issues) ==
    LET st == concept_loop(Loop(concepts, issues), rows) IN
    IF st.raised THEN st ELSE concepts_end(st)

parse_concepts(rows, issues) ==
    LET st == concept_loop(Loop(EmptyMap, issues), rows) IN
    IF st.raised THEN st ELSE concepts_end(st)

\* (mutant) every value type is appended, seen before or not
merge_value_type_always(cur, new) == ListAppend(cur, new)

\* "Handling multi-value types"
merge_value_type(cur, new) ==
    IF ~In(new, cur) THEN ListAppend(cur, new) ELSE cur

composite_id(res) == Str(res.concept.v \o <<".">> \o res.property_.v)

\* (mutant) the value type is only tested for absence, not for being a BNode
property_row_blank_kept(st, raw) ==
    IF make_property_compliant_raises(raw) THEN [st EXCEPT !.raised = TRUE]
    ELSE
    LET converted_res == make_property_compliant(raw)
        property_id == converted_res.property_
        id_ == composite_id(converted_res)
    IN  IF ~Truthy(converted_res.concept) \/ IsBNode(converted_res.concept)
        THEN [st EXCEPT !.issues = Append(@,
                 ResourceRetrievalWarning(property_id, "property",
                     "Unable to determine to what concept property is being defined"))]
        ELSE IF ~Truthy(converted_res.value_type)
        THEN [st EXCEPT !.issues = Append(@,
                 ResourceRetrievalWarning(property_id, "property",
                     "Unable to determine value type of property"))]
        ELSE IF id_ \notin DOMAIN st.map
        THEN [st EXCEPT !.map = Put(st.map, id_,
                 [converted_res EXCEPT !.value_type = List(<<converted_res.value_type>>)])]
        ELSE LET st1 == handle_meta("property", st, id_, converted_res, "name")
                 st2 == handle_meta("property", st1, id_, converted_res, "description")
             IN  [st2 EXCEPT !.map[id_].value_type =
                     merge_value_type(@, converted_res.value_type)]

\* one iteration of parse_properties' loop
property_row(st, raw) ==
    IF make_property_compliant_raises(raw) THEN [st EXCEPT !.raised = TRUE]
    ELSE
    LET converted_res == make_property_compliant(raw)
        property_id == converted_res.property_
        id_ == composite_id(converted_res)
    IN  IF ~Truthy(converted_res.concept) \/ IsBNode(converted_res.concept)
        THEN [st EXCEPT !.issues = Append(@,
                 ResourceRetrievalWarning(property_id, "property",
                     "Unable to determine to what concept property is being defined"))]
        ELSE IF ~Truthy(converted_res.value_type) \/ IsBNode(converted_res.value_type)
        THEN [st EXCEPT !.issues = Append(@,
                 ResourceRetrievalWarning(property_id, "property",
                     "Unable to determine value type of property"))]
        ELSE IF id_ \notin DOMAIN st.map
        THEN [st EXCEPT !.map = Put(st.map, id_,
                 [converted_res EXCEPT !.value_type = List(<<converted_res.value_type>>)])]
        ELSE LET st1 == handle_meta("property", st, id_, converted_res, "name")
                 st2 == handle_meta("property", st1, id_, converted_res, "description")
             IN  [st2 EXCEPT !.map[id_].value_type =
                     merge_value_type(@, converted_res.value_type)]

\* ", ".join(l)
RECURSIVE join_text(_)
join_text(items) ==
    IF items = <<>> THEN <<>>
    ELSE IF Len(items) = 1 THEN items[1].v
    ELSE items[1].v \o <<", ">> \o join_text(Tail(items))

join(l) == Str(join_text(l.v))

\* after the loop: the value types joined, then "if not properties"
properties_end(st) ==
    LET joined == [id \in DOMAIN st.map |->
                      [st.map[id] EXCEPT !.value_type = join(@)]]
        st1 == [st EXCEPT !.map = joined]
    IN  IF DOMAIN st.map = {}
        THEN [st1 EXCEPT !.issues = Append(@, NeatValueError("Unable to parse properties"))]
        ELSE st1

RECURSIVE property_loop(_, _)
property_loop(st, rows) ==
    IF rows = <<>> \/ st.raised THEN st
    ELSE property_loop(property_row(st, Head(rows)), Tail(rows))

parse_properties(rows, issues) ==
    LET st == property_loop(Loop(EmptyMap, issues), rows) IN
    IF st.raised THEN st ELSE properties_end(st)

\* ---------------------------------------------------- the query rows
SeqsUpTo(S, n) == UNION {[1..k -> S] : k \in 0..n}

ConceptRow(c, n, d, i) ==
    [concept |-> c, name |-> n, description |-> d, implements |-> i,
     instance_source |-> c]

PropertyRow(c, p, n, d, vt) ==
    [concept |-> c, property_ |-> p, name |-> n, description |-> d,
     value_type |-> vt, instance_source |-> p,
     min_count |-> Int0, max_count |-> None, default |-> None]

Foo == Str(<<"S", "#", "F">>)
FooAlt == Str(<<"S", "/", "F">>)
Uuid == Str(<<"S", "/", "U">>)
Block == Str(<<"imf:Block">>)
Terminal == Str(<<"imf:Terminal">>)
Pump == Str(<<"Pump">>)
alpha == Str(<<"alpha">>)
beta == Str(<<"beta">>)
hasFlowRate == Str(<<"S", "#", "hasFlowRate">>)
hasName == Str(<<"S", "#", "hasName">>)
XsdString == Str(<<"S", "#", "string">>)
XsdFloat == Str(<<"S", "#", "float">>)
AltString == Str(<<"S", "/", "string">>)
Blank == BNode(<<"b0">>)

\* rows of CONCEPTS_QUERY: ?concept is an IRI, ?implements one of the two
\* VALUES, ?name and ?description optional
ConceptRows ==
    {ConceptRow(Foo, n, d, Block) : n \in {None, Pump}, d \in {None, alpha, beta}}
    \cup {ConceptRow(FooAlt, None, alpha, Terminal), ConceptRow(Uuid, Pump, beta, Block)}

\* rows of PROPERTIES_QUERY, and rows with an absent concept or value type
PropertyRows ==
    {PropertyRow(Foo, hasFlowRate, None, None, vt) : vt \in {XsdString, XsdFloat, Foo}}
    \cup {PropertyRow(Foo, hasFlowRate, Pump, d, XsdString) : d \in {alpha, beta}}
    \cup {PropertyRow(Foo, hasFlowRate, Pump, beta, vt) : vt \in {Blank, AltString}}
    \cup {PropertyRow(Foo, hasFlowRate, None, None, None)}
    \cup {PropertyRow(None, hasFlowRate, None, None, XsdString)}
    \cup {PropertyRow(Uuid, hasName, None, alpha, XsdFloat)}

\* the rows of the graphs an importer is constructed over
GraphConceptRows ==
    {ConceptRow(Foo, Pump, alpha, Block), ConceptRow(Foo, Pump, beta, Terminal)}

GraphPropertyRows ==
    {PropertyRow(Foo, hasFlowRate, None, None, XsdFloat),
     PropertyRow(Foo, hasFlowRate, None, None, Blank),
     PropertyRow(Uuid, hasName, None, alpha, XsdString)}

\* ------------------------------------------------ _imf2data_model.py
NoOutcome == [kind |-> "none", errors |-> <<>>, concepts |-> EmptyMap,
              properties |-> EmptyMap]

\* IMFImporter.from_file: the issue list the importer is constructed with
from_file(failed) == IF failed THEN <<FileReadError>> ELSE <<>>

\* _to_data_model_components: both parsers over self.issue_list
to_data_model_components(g, issues) ==
    LET c == parse_concepts(g.concepts, issues) IN
    IF c.raised
    THEN [raised |-> TRUE, issues |-> c.issues, concepts |-> c.map,
          properties |-> EmptyMap]
    ELSE LET p == parse_properties(g.properties, c.issues) IN
         [raised |-> p.raised, issues |-> p.issues, concepts |-> c.map,
          properties |-> p.map]

Init ==
    /\ graph \in [concepts : SeqsUpTo(GraphConceptRows, MaxGraphRows),
                  properties : SeqsUpTo(GraphPropertyRows, MaxGraphRows)]
    /\ read_failed \in BOOLEAN
    /\ issue_list = from_file(read_failed)
    /\ concepts = EmptyMap
    /\ properties = EmptyMap
    /\ pc = "importer"
    /\ outcome = NoOutcome
    /\ calls = 0
    /\ uri = <<>>
    /\ idents = <<>>

\* IMFImporter.to_data_model, one whole call (trigger_warnings only emits the
\* queued warnings: it changes nothing here)
to_data_model ==
    /\ pc = "importer"
    /\ calls < MaxCalls
    /\ calls' = calls + 1
    /\ IF has_errors(issue_list)
       THEN /\ outcome' = [NoOutcome EXCEPT !.kind = "MultiValueError",
                                            !.errors = errors(issue_list)]
            /\ UNCHANGED <<issue_list, concepts, properties>>
       ELSE LET r == to_data_model_components(graph, issue_list) IN
            /\ issue_list' = r.issues
            /\ concepts' = r.concepts
            /\ properties' = r.properties
            /\ outcome' = IF r.raised
                          THEN [NoOutcome EXCEPT !.kind = "TypeError"]
                          ELSE [NoOutcome EXCEPT !.kind = "returned",
                                                 !.concepts = r.concepts,
                                                 !.properties = r.properties]
    /\ UNCHANGED <<graph, read_failed, pc, uri, idents>>

Next == to_data_model

Spec == Init /\ [][Next]_vars

\* ------------------- parse_concepts and parse_properties, row by row
InitParse ==
    /\ graph = [concepts |-> <<>>, properties |-> <<>>]
    /\ read_failed = FALSE
    /\ issue_list = <<>>
    /\ concepts = EmptyMap
    /\ properties = EmptyMap
    /\ pc \in {"parse_concepts", "parse_properties"}
    /\ outcome = NoOutcome
    /\ calls = 0
    /\ uri = <<>>
    /\ idents = <<>>

ConceptRowStep ==
    /\ pc = "parse_concepts"
    /\ Len(graph.concepts) < MaxConceptRows
    /\ \E raw \in ConceptRows :
        LET st == concept_row(Loop(concepts, issue_list), raw) IN
        /\ graph' = [graph EXCEPT !.concepts = Append(@, raw)]
        /\ concepts' = st.map
        /\ issue_list' = st.issues
        /\ pc' = IF st.raised THEN "raised" ELSE pc
    /\ UNCHANGED <<read_failed, properties, outcome, calls, uri, idents>>

ConceptsEnd ==
    /\ pc = "parse_concepts"
    /\ LET st == concepts_end(Loop(concepts, issue_list)) IN
        /\ concepts' = st.map
        /\ issue_list' = st.issues
    /\ pc' = "returned"
    /\ UNCHANGED <<graph, read_failed, properties, outcome, calls, uri, idents>>

PropertyRowStep ==
    /\ pc = "parse_properties"
    /\ Len(graph.properties) < MaxPropertyRows
    /\ \E raw \in PropertyRows :
        LET st == property_row(Loop(properties, issue_list), raw) IN
        /\ graph' = [graph EXCEPT !.properties = Append(@, raw)]
        /\ properties' = st.map
        /\ issue_list' = st.issues
        /\ pc' = IF st.raised THEN "raised" ELSE pc
    /\ UNCHANGED <<read_failed, concepts, outcome, calls, uri, idents>>

PropertiesEnd ==
    /\ pc = "parse_properties"
    /\ LET st == properties_end(Loop(properties, issue_list)) IN
        /\ properties' = st.map
        /\ issue_list' = st.issues
    /\ pc' = "returned"
    /\ UNCHANGED <<graph, read_failed, concepts, outcome, calls, uri, idents>>

NextParse == ConceptRowStep \/ ConceptsEnd \/ PropertyRowStep \/ PropertiesEnd

SpecParse == InitParse /\ [][NextParse]_vars

\* ------------------------------------ the identifier normalization
Alphabet == {"S", "/", "#", "F", "U"}

\* make_concept_compliant's identifier for a concept reference x
normalize(x) == make_concept_compliant(ConceptRow(x, None, None, Block)).concept

InitNormalize ==
    /\ uri \in SeqsUpTo(Alphabet, MaxLen)
    /\ idents = <<>>
    /\ graph = [concepts |-> <<>>, properties |-> <<>>]
    /\ read_failed = FALSE
    /\ issue_list = <<>>
    /\ concepts = EmptyMap
    /\ properties = EmptyMap
    /\ pc = "normalize"
    /\ outcome = NoOutcome
    /\ calls = 0

Normalize ==
    /\ pc = "normalize"
    /\ Len(idents) < 2
    /\ idents' = Append(idents,
                   normalize(IF idents = <<>> THEN Str(uri) ELSE idents[Len(idents)]))
    /\ UNCHANGED <<graph, read_failed, issue_list, concepts, properties, pc,
                   outcome, calls, uri>>

NextNormalize == Normalize

SpecNormalize == InitNormalize /\ [][NextNormalize]_vars

\* ------------------------------------------------------------ claims
IsPrefix(a, b) == Len(a) <= Len(b) /\ SubSeq(b, 1, Len(a)) = a

Called == calls' = calls + 1

\* C1: a to_data_model call whose extraction queued a fatal issue raises the
\* aggregate error: no call returns a model while the issue list holds a fatal
\* issue.
C1_NoModelWithFatalIssue ==
    outcome.kind = "returned" => ~has_errors(issue_list)

\* C2 (as claimed): consecutive calls over the same graph have the same outcome,
\* and the issues visible after a call are those that call produced alone.
C2_CallsIndependent ==
    [][Called =>
        /\ calls >= 1 => outcome'.kind = outcome.kind
        /\ ~has_errors(issue_list) =>
              issue_list' = to_data_model_components(graph, <<>>).issues]_vars

\* C2 (amended): the concept and property maps are fresh per call (two calls
\* that return over the same graph return the same maps), but the issue list is
\* the importer's one list: a call only appends to it, so the issues of
\* from_file and of earlier calls stay visible, and a call entered with a fatal
\* issue in it raises.
C2_FreshMapsSharedIssueList ==
    [][Called =>
        /\ IsPrefix(issue_list, issue_list')
        /\ has_errors(issue_list) => outcome'.kind = "MultiValueError"
        /\ outcome.kind = "returned" /\ outcome'.kind = "returned" =>
              /\ outcome'.concepts = outcome.concepts
              /\ outcome'.properties = outcome.properties]_vars

\* two calls returned, and the list holds the warnings of both
C2_Witness ==
    /\ calls = 2
    /\ outcome.kind = "returned"
    /\ Len(issue_list) >= 2
    /\ \E id \in DOMAIN outcome.concepts : IsList(outcome.concepts[id].implements)

ConceptStepTaken == Len(graph'.concepts) = Len(graph.concepts) + 1
PropertyStepTaken == Len(graph'.properties) = Len(graph.properties) + 1
LastOf(rows) == rows[Len(rows)]

ConceptAccepted(raw) == ~IsBNode(raw.implements)
ConceptRowsOf(id) ==
    SelectSeq(graph.concepts,
              LAMBDA r : ConceptAccepted(r) /\ normalize(r.concept) = id)

PropertyAccepted(raw) == raw.concept.k = "str" /\ raw.value_type.k = "str"
PropertyRowsOf(id) ==
    SelectSeq(graph.properties,
              LAMBDA r : PropertyAccepted(r)
                         /\ composite_id(make_property_compliant(r)) = id)

FieldOf(rows, f) == [i \in DOMAIN rows |-> rows[i][f]]
Values(seq) == {seq[i] : i \in DOMAIN seq}
FirstIndex(seq, x) ==
    CHOOSE i \in DOMAIN seq : seq[i] = x /\ \A j \in 1..(i - 1) : seq[j] # x

RetrievalWarningAppended ==
    /\ Len(issue_list') = Len(issue_list) + 1
    /\ IsPrefix(issue_list, issue_list')
    /\ LastOf(issue_list').cls = "ResourceRetrievalWarning"
    /\ ~IsError(LastOf(issue_list'))

\* C3: a property row whose value_type is a blank node is dropped: it appends
\* exactly one retrieval warning (no fatal issue), creates and changes no
\* record, the loop goes on to the remaining rows, and no record's value_type
\* ever holds the blank node.
C3_BlankValueTypeDropped ==
    /\ [][PropertyStepTaken /\ IsBNode(LastOf(graph'.properties).value_type)
                            /\ IsStr(LastOf(graph'.properties).concept) =>
            /\ properties' = properties
            /\ RetrievalWarningAppended
            /\ pc' = "parse_properties"]_vars
    /\ [](\A id \in DOMAIN properties :
            LET vt == properties[id].value_type IN
            IF IsList(vt) THEN ~In(Blank, vt)
            ELSE \A i \in DOMAIN vt.v : vt.v[i] \notin Values(Blank.v))

\* a blank-node row between two accepted rows of the same property
C3_Witness ==
    /\ pc = "returned"
    /\ \E i \in DOMAIN graph.properties :
        /\ i > 1 /\ i < Len(graph.properties)
        /\ IsBNode(graph.properties[i].value_type)
        /\ PropertyAccepted(graph.properties[i - 1])
        /\ PropertyAccepted(graph.properties[i + 1])
        /\ graph.properties[i + 1].value_type # graph.properties[i - 1].value_type
    /\ DOMAIN properties # {}

\* C4: the value_type parse_properties returns for a composite key is the
\* ", "-join of the distinct value types of the accepted rows of that key, each
\* once, in order of first appearance (so its set of types does not depend on
\* the order of the rows).
C4_ValueTypesDistinctFirstSeen ==
    pc = "returned" =>
        \A id \in DOMAIN properties :
            LET R == PropertyRowsOf(id)
                T == [i \in DOMAIN R |-> remove_namespace(R[i].value_type).v[1]]
                vt == properties[id].value_type
                n == (Len(vt.v) + 1) \div 2
                L == [i \in 1..n |-> vt.v[2 * i - 1]]
            IN  /\ vt.k = "str"
                /\ Len(vt.v) = 2 * n - 1
                /\ \A i \in 1..(n - 1) : vt.v[2 * i] = ", "
                /\ Values(L) = Values(T)
                /\ \A i, j \in 1..n : i < j =>
                      /\ L[i] # L[j]
                      /\ FirstIndex(T, L[i]) < FirstIndex(T, L[j])

\* string, float, float, Foo (or the like) joined to three types
C4_Witness ==
    /\ pc = "returned"
    /\ \E id \in DOMAIN properties :
        /\ properties[id].value_type = Str(<<"string", ", ", "float", ", ", "F">>)
        /\ Len(PropertyRowsOf(id)) = 4

FirstNonEmptyKept(stored, seen) ==
    LET I == {i \in DOMAIN seen : Truthy(seen[i])} IN
    IF I = {} THEN ~Truthy(stored)
    ELSE stored = seen[CHOOSE i \in I : \A j \in I : i <= j]

RedefinedWarnings(id, f) ==
    Cardinality({i \in DOMAIN issue_list :
                    /\ issue_list[i].cls = "ResourceRedefinedWarning"
                    /\ issue_list[i].identifier = id
                    /\ issue_list[i].feature = f})

C6_WarningOnlyIfValuesDiffer ==
    \A i \in DOMAIN issue_list :
        issue_list[i].cls = "ResourceRedefinedWarning" =>
            /\ Truthy(issue_list[i].current_value)
            /\ Truthy(issue_list[i].new_value)
            /\ issue_list[i].current_value # issue_list[i].new_value

\* C7: the concept normalization applied twice gives what it gives once.
C7_NormalizeIdempotent ==
    Len(idents) = 2 => idents[2] = idents[1]

C10_ScalarUntilSecondParent ==
    \A id \in DOMAIN concepts :
        LET P == FieldOf(ConceptRowsOf(id), "implements") IN
        /\ Cardinality(Values(P)) = 1 => concepts[id].implements = P[1]
        /\ IsList(concepts[id].implements) => Cardinality(Values(P)) >= 2

\* C10 (amended): implements is the scalar parent while one row of the concept
\* has been seen; from the second row on it is a list (also when every row
\* names the same parent), holding the distinct parents once each in
\* first-seen order.
C10_ListFromSecondRow ==
    \A id \in DOMAIN concepts :
        LET P == FieldOf(ConceptRowsOf(id), "implements")
            impl == concepts[id].implements
        IN  /\ Len(P) = 1 => impl = P[1]
            /\ Len(P) >= 2 =>
                  /\ IsList(impl)
                  /\ Values(impl.v) = Values(P)
                  /\ \A i, j \in DOMAIN impl.v : i < j =>
                        /\ impl.v[i] # impl.v[j]
                        /\ FirstIndex(P, impl.v[i]) < FirstIndex(P, impl.v[j])

\* two rows naming the same parent left a one-element list
C10_Witness ==
    \E id \in DOMAIN concepts :
        /\ concepts[id].implements = List(<<Block>>)
        /\ FieldOf(ConceptRowsOf(id), "implements") = <<Block, Block>>

====
